---- MODULE Spec2Model ----
(***************************************************************************)
(* The SMTP health-check probe of plugins/inputs/smtp.                     *)
(*                                                                         *)
(* Two implementations of SMTPGather are modelled side by side:            *)
(*   variant = "textproto"  smtp.go, the hand-rolled line protocol on      *)
(*                          net/textproto;                                 *)
(*   variant = "netsmtp"    the implementation on the net/smtp client.     *)
(* One behaviour is one call of SMTPGather: pc walks through the function, *)
(* one action per statement group, and every network call (dial, write,    *)
(* read) draws what the server does from a small set.  Time is a tick      *)
(* counter advanced by the dial and by every read; one tick is one second. *)
(* Under SpecG the call is made by Gather, which prepares the address and  *)
(* the timeouts first and hands the record to the accumulator afterwards.  *)
(***************************************************************************)
EXTENDS Integers, Sequences, FiniteSets, TLC

VARIABLES
    variant,    \* which implementation of SMTPGather runs
    config,     \* the Smtp struct (receiver of SMTPGather)
    pc,         \* position in SMTPGather
    net,        \* the connection, the clock, and what went over the wire
    rec,        \* the returned maps: rec.fields and rec.tags
    success,    \* the local variable `success`
    gather      \* Gather: its tags, its return value, and the accumulator

vars == <<variant, config, pc, net, rec, success, gather>>

----------------------------------------------------------------------------
(* Bounds of the model *)

\* a dial or a server reply takes a whole number of delay units, at most
\* MaxDelay of them
MaxDelay == 1
\* config.ReadTimeout when it is configured, in ticks
ReadTimeoutTicks == 12
\* config.Timeout (the connect timeout) when it is configured, in ticks
ConnectTimeoutTicks == 12

\* a delay unit is half the configured read timeout, in ticks
DelayUnit == ReadTimeoutTicks \div 2
\* the longest configured address, in characters
MaxAddrLen == 3

Delays == {d * DelayUnit : d \in 0..MaxDelay}

\* time.Second, in ticks
Second == 1

Max(a, b) == IF a >= b THEN a ELSE b

----------------------------------------------------------------------------
(* ResultType and Operation *)

Success == 0
Timeout == 1
ConnectionFailed == 2
ReadFailed == 3
StringMismatch == 4
TlsConfigError == 5
CommandFailed == 6

Connect == "connect"
Ehlo == "ehlo"
StartTls == "starttls"
MailFrom == "from"
RcptTo == "to"
Data == "data"
Body == "body"
Quit == "quit"

\* the operations in the order SMTPGather walks them
Operations == <<Connect, Ehlo, StartTls, MailFrom, RcptTo, Data, Body, Quit>>

OpIndex(operation) == CHOOSE i \in 1..Len(Operations) : Operations[i] = operation

CodeField(operation) == operation \o "_code"

----------------------------------------------------------------------------
(* Go maps *)

EmptyMap == [k \in {} |-> 0]

Put(m, k, v) == [x \in (DOMAIN m) \cup {k} |-> IF x = k THEN v ELSE m[x]]

Has(m, k) == k \in DOMAIN m

\* mutant: the returned tags are not merged in
Merge_DropsDriverTags(base, over) == base

\* the tags of Gather overlaid by the tags SMTPGather returned
Merge(base, over) ==
    [k \in (DOMAIN base) \cup (DOMAIN over) |->
        IF k \in DOMAIN over THEN over[k] ELSE base[k]]

----------------------------------------------------------------------------
(* Addresses.  An address is a Go string, here a sequence of characters;   *)
(* indices are Go's, counted from 0.                                       *)

\* strings.IndexByte(s, c): the first index of c in s, -1 when absent
IndexByte(s, c) ==
    IF \E i \in 1..Len(s) : s[i] = c
    THEN (CHOOSE i \in 1..Len(s) :
             s[i] = c /\ \A j \in 1..(i - 1) : s[j] # c) - 1
    ELSE -1

\* the last index of c in s, -1 when absent
LastIndexByte(s, c) ==
    IF \E i \in 1..Len(s) : s[i] = c
    THEN (CHOOSE i \in 1..Len(s) :
             s[i] = c /\ \A j \in (i + 1)..Len(s) : s[j] # c) - 1
    ELSE -1

\* s[a:b]
Slice(s, a, b) == SubSeq(s, a + 1, b)

\* net.AddrError{Err: why, Addr: addr}; its text is
\* "address " + addr + ": " + why
AddrError(addr, why) == [kind |-> "AddrError", msg |-> why, addr |-> addr]

\* net.SplitHostPort
SplitHostPort(hostport) ==
    LET missingPort   == "missing port in address"
        tooManyColons == "too many colons in address"
        addrErr(why)  == [host |-> <<>>, port |-> <<>>,
                          err |-> AddrError(hostport, why)]
        n == Len(hostport)
        \* the port starts after the last colon
        i == LastIndexByte(hostport, ":")
        \* the checks after the host was cut out; no '[' may follow index
        \* j and no ']' index k
        finish(host, j, k) ==
            IF IndexByte(Slice(hostport, j, n), "[") >= 0
            THEN addrErr("unexpected '[' in address")
            ELSE IF IndexByte(Slice(hostport, k, n), "]") >= 0
            THEN addrErr("unexpected ']' in address")
            ELSE [host |-> host, port |-> Slice(hostport, i + 1, n),
                  err |-> [kind |-> "nil", msg |-> "", addr |-> <<>>]]
    IN  IF i < 0 THEN addrErr(missingPort)
        ELSE IF hostport[1] = "["
        THEN LET end == IndexByte(hostport, "]")
             IN  IF end < 0 THEN addrErr("missing ']' in address")
                 ELSE IF end + 1 = n THEN addrErr(missingPort)
                 ELSE IF end + 1 # i
                 THEN IF hostport[end + 2] = ":"
                      THEN addrErr(tooManyColons)
                      ELSE addrErr(missingPort)
                 ELSE finish(Slice(hostport, 1, end), 1, end + 1)
        ELSE IF IndexByte(Slice(hostport, 0, i), ":") >= 0
        THEN addrErr(tooManyColons)
        ELSE finish(Slice(hostport, 0, i), 0, 0)

\* "localhost"
Localhost == <<"l", "o", "c", "a", "l", "h", "o", "s", "t">>

\* the address of the test configuration, "127.0.0.1:2004"
TestAddress ==
    <<"1", "2", "7", ".", "0", ".", "0", ".", "1", ":", "2", "0", "0", "4">>

\* the characters of the addresses tried: the colon, the brackets of an
\* IPv6 literal, and a character that is none of them
AddrChars == {"a", ":", "[", "]"}

\* every string of up to MaxAddrLen of these characters
Addresses == UNION { [1..k -> AddrChars] : k \in 0..MaxAddrLen }

----------------------------------------------------------------------------
(* The server and the wire *)

\* status codes a server may put on a reply line
Codes == {220, 221, 250, 354, 421}

\* What arrives for one ReadResponse:
\*   code     a well-formed reply "<code> text"
\*   badcode  a line of reply shape whose first three characters parse to a
\*            number below 100 ("099 x"): ProtocolError, the number returned
\*   short    a line shorter than four characters: ProtocolError, code 0
\*   eof      the connection was closed or reset
\*   silent   nothing arrives before the read deadline
Replies ==
    [kind : {"code"}, code : Codes]
        \cup {[kind |-> "badcode", code |-> 99]}
        \cup [kind : {"short", "eof", "silent"}, code : {0}]

NoErr == [kind |-> "nil", code |-> 0]

\* textproto.parseCodeLine's comparison of code with expectCode
CodeMismatch(code, expectCode) ==
    \/ 1 <= expectCode /\ expectCode < 10 /\ code \div 100 # expectCode
    \/ 10 <= expectCode /\ expectCode < 100 /\ code \div 10 # expectCode
    \/ 100 <= expectCode /\ expectCode < 1000 /\ code # expectCode

\* textproto.Reader.ReadResponse(expectCode) on connection n when the server
\* answers `reply` after d ticks: the connection afterwards, the code and
\* the error returned.  Error kinds: timeout (a net.Error with Timeout()),
\* textproto (*textproto.Error, carrying the code), protocol
\* (textproto.ProtocolError), eof.
ReadResponseOn(n, operation, expectCode, reply, d) ==
    LET arrive   == n.now + d
        \* the zero deadline of a connection means no deadline
        timedOut == /\ n.deadlineSets > 0
                    /\ reply.kind = "silent" \/ arrive >= n.deadline
        at       == IF timedOut THEN Max(n.now, n.deadline) ELSE arrive
        code     == IF timedOut \/ reply.kind \in {"short", "eof"}
                    THEN 0 ELSE reply.code
        err      == IF timedOut THEN [kind |-> "timeout", code |-> 0]
                    ELSE IF reply.kind = "eof" THEN [kind |-> "eof", code |-> 0]
                    ELSE IF reply.kind \in {"short", "badcode"}
                         THEN [kind |-> "protocol", code |-> 0]
                    ELSE IF CodeMismatch(reply.code, expectCode)
                         THEN [kind |-> "textproto", code |-> reply.code]
                    ELSE NoErr
    IN  [net  |-> [n EXCEPT !.now = at,
                            !.peer = IF err.kind = "eof" THEN "closed" ELSE @,
                            !.reads = Append(@, [step |-> n.step,
                                                 op |-> operation,
                                                 expect |-> expectCode,
                                                 code |-> code,
                                                 err |-> err.kind,
                                                 at |-> at,
                                                 secure |-> n.tls # "off"])],
         code |-> code,
         err  |-> err]

\* once the peer has closed the connection every read finds it closed.  On
\* a connection without read deadline the read of a reply that never comes
\* does not return: it has no outcome, the caller stays where it is; and
\* as the moment a reply arrives then decides nothing, replies are taken to
\* arrive at once there.
ReadResponse(n, operation, expectCode) ==
    IF n.peer = "closed"
    THEN { ReadResponseOn(n, operation, expectCode, [kind |-> "eof", code |-> 0], 0) }
    ELSE { ReadResponseOn(n, operation, expectCode, reply, d) :
             reply \in {x \in Replies : x.kind = "silent" => n.deadlineSets > 0},
             d \in {x \in Delays : x = 0 \/ n.deadlineSets > 0} }

\* textproto.Conn.Cmd(msg): one write.  On a connection wrapped by
\* tls.Client the first write runs the handshake; a failed handshake is a
\* failed write.  A failed write puts nothing on the wire, and the
\* connection (or the TLS session) stays unusable for writing; a write on a
\* connection this side has closed fails.
CmdOn(n, operation, msg, w) ==
    IF w = "ok"
    THEN [net |-> [n EXCEPT !.sent = Append(@, [step |-> n.step,
                                                  op |-> operation,
                                                  msg |-> msg,
                                                  secure |-> n.tls # "off"]),
                            !.tls = IF @ = "pending" THEN "up" ELSE @],
          err |-> NoErr]
    ELSE [net |-> [n EXCEPT !.writeBroken = TRUE],
          err |-> [kind |-> "write", code |-> 0]]

Cmd(n, operation, msg) ==
    { CmdOn(n, operation, msg, w) :
        w \in IF n.writeBroken \/ n.conn = "closed"
              THEN {"fail"} ELSE {"ok", "fail"} }

\* net.DialTimeout: the connection to `address` is established after d
\* ticks, refused after d ticks, or the connect timeout elapses
DialTimeout(n, address, timeout) ==
    { [net |-> [n EXCEPT !.now = n.now + d, !.conn = "open",
                         !.connectedAt = n.now + d,
                         !.dialed = Append(@, address)],
       err |-> NoErr] :
        d \in {x \in Delays : x < timeout} }
    \cup
    { [net |-> [n EXCEPT !.now = n.now + d, !.dialErr = "refused",
                         !.dialed = Append(@, address)],
       err |-> [kind |-> "refused", code |-> 0]] :
        d \in {x \in Delays : x < timeout} }
    \cup
    { [net |-> [n EXCEPT !.now = n.now + timeout, !.dialErr = "timeout",
                         !.dialed = Append(@, address)],
       err |-> [kind |-> "timeout", code |-> 0]] }

\* conn.SetReadDeadline(time.Now().Add(config.ReadTimeout.Duration))
SetReadDeadline(n, readTimeout) ==
    [n EXCEPT !.deadline = n.now + readTimeout, !.deadlineSets = @ + 1]

\* mutant: the deferred Close is missing
Close_LeavesOpen(n) == n

\* the deferred conn.Close() / text.Close()
Close(n) == [n EXCEPT !.conn = "closed"]

\* bookkeeping: SMTPGather starts working on `operation`
Enter(n, operation) ==
    [n EXCEPT !.step = operation, !.entered = @ \cup {operation}]

\* bookkeeping: the QUIT sent as cleanup after a failed step
EnterCleanup(n) == [n EXCEPT !.step = "cleanup"]

----------------------------------------------------------------------------
(* smtp.go: setResult, setMetrics, checkResponse, performCommand *)

ResultTag(result) ==
    CASE result = Success -> "success"
      [] result = Timeout -> "timeout"
      [] result = ConnectionFailed -> "connection_failed"
      [] result = ReadFailed -> "read_failed"
      [] result = StringMismatch -> "string_mismatch"
      [] result = TlsConfigError -> "tls_config_error"
      [] OTHER -> ""

setResult(result, r) ==
    [fields |-> Put(r.fields, "result_code", result),
     tags   |-> Put(r.tags, "result", ResultTag(result))]

\* mutant: the code is recorded only for a reply that matched
setMetrics_DropsCodeOnError(result, operation, foundCode, r) ==
    LET r1 == [fields |-> Put(r.fields, "result_code", result),
               tags   |-> Put(r.tags, "result", ResultTag(result))]
    IN  IF foundCode # 0 /\ result = Success
        THEN [r1 EXCEPT !.fields = Put(@, CodeField(operation), foundCode)]
        ELSE r1

setMetrics(result, operation, foundCode, r) ==
    LET r1 == setResult(result, r)
    IN  IF foundCode # 0
        THEN [r1 EXCEPT !.fields = Put(@, CodeField(operation), foundCode)]
        ELSE r1

\* mutant: a reply with the wrong code is recorded and the session goes on
checkResponseOf_MismatchContinues(rd, operation, r) ==
    IF rd.err.kind # "nil"
    THEN [net |-> rd.net,
          rec |-> IF rd.err.kind = "timeout"
                  THEN setMetrics(Timeout, operation, rd.code, r)
                  ELSE IF rd.err.kind = "textproto" /\ rd.err.code # 0
                  THEN setMetrics(StringMismatch, operation, rd.code, r)
                  ELSE setMetrics(ReadFailed, operation, rd.code, r),
          success |-> rd.err.kind = "textproto"]
    ELSE [net |-> rd.net,
          rec |-> setMetrics(Success, operation, rd.code, r),
          success |-> TRUE]

\* mutant: the timeout case is missing, a timeout is a failed read
checkResponseOf_NoTimeoutCase(rd, operation, r) ==
    IF rd.err.kind # "nil"
    THEN [net |-> rd.net,
          rec |-> IF rd.err.kind = "textproto" /\ rd.err.code # 0
                  THEN setMetrics(StringMismatch, operation, rd.code, r)
                  ELSE setMetrics(ReadFailed, operation, rd.code, r),
          success |-> FALSE]
    ELSE [net |-> rd.net,
          rec |-> setMetrics(Success, operation, rd.code, r),
          success |-> TRUE]

\* checkResponse after ReadResponse returned rd
checkResponseOf(rd, operation, r) ==
    IF rd.err.kind # "nil"
    THEN [net |-> rd.net,
          rec |-> IF rd.err.kind = "timeout"
                  THEN setMetrics(Timeout, operation, rd.code, r)
                  ELSE IF rd.err.kind = "textproto" /\ rd.err.code # 0
                  THEN setMetrics(StringMismatch, operation, rd.code, r)
                  ELSE setMetrics(ReadFailed, operation, rd.code, r),
          success |-> FALSE]
    ELSE [net |-> rd.net,
          rec |-> setMetrics(Success, operation, rd.code, r),
          success |-> TRUE]

\* mutant: the read deadline is pushed forward before every read
checkResponse_DeadlinePerRead(n, operation, expectedCode, r) ==
    { checkResponseOf(rd, operation, r) :
        rd \in ReadResponse(SetReadDeadline(n, config.ReadTimeout),
                            operation, expectedCode) }

checkResponse(n, operation, expectedCode, r) ==
    { checkResponseOf(rd, operation, r) :
        rd \in ReadResponse(n, operation, expectedCode) }

\* mutant: the error of text.Cmd is dropped and the reply is awaited anyway
performCommand_IgnoresWriteError(n, operation, msg, expectedCode, r) ==
    UNION { checkResponse(c.net, operation, expectedCode, r) :
            c \in Cmd(n, operation, msg) }

performCommand(n, operation, msg, expectedCode, r) ==
    UNION { IF c.err.kind # "nil"
            THEN {[net |-> c.net,
                   rec |-> setResult(CommandFailed, r),
                   success |-> FALSE]}
            ELSE checkResponse(c.net, operation, expectedCode, r) :
            c \in Cmd(n, operation, msg) }

----------------------------------------------------------------------------
(* Initial state: SMTPGather is entered with some configuration *)

Variants == {"textproto", "netsmtp"}

\* config.ClientConfig.TLSConfig() is only called when StartTls is set, so
\* what it would return is left at (nil, nil) for the other configurations
Configs ==
    { c \in [Address     : {TestAddress},
             Ehlo        : {"", "me@test.com"},
             StartTls    : BOOLEAN,
             From        : {"", "me2@test.com"},
             To          : {"", "me3@test.com"},
             Body        : {"", "testdata 12345"},
             \* what TLSConfig() returns: a usable *tls.Config, (nil, nil),
             \* or an error
             TLSConfig   : {"ok", "nil", "err"},
             Timeout     : {ConnectTimeoutTicks},
             ReadTimeout : {ReadTimeoutTicks}] :
        c.StartTls \/ c.TLSConfig = "nil" }

InitNet ==
    [conn         |-> "none",
     \* the addresses handed to net.DialTimeout
     dialed       |-> <<>>,
     dialErr      |-> "nil",
     connectedAt  |-> 0,
     step         |-> "dial",
     entered      |-> {},
     start        |-> 0,
     now          |-> 0,
     deadline     |-> 0,
     deadlineSets |-> 0,
     tls          |-> "off",
     peer         |-> "up",
     writeBroken  |-> FALSE,
     sent         |-> <<>>,
     reads        |-> <<>>,
     \* the net/smtp client: localName, didHello, helloError
     localName    |-> "localhost",
     didHello     |-> FALSE,
     helloError   |-> NoErr]

\* Gather before it did anything, called on the plugin configured as c
InitGather(c, called) ==
    [called     |-> called,
     \* the plugin as it was configured
     configured |-> c,
     tags       |-> EmptyMap,
     \* the measurements handed to acc.AddFields
     acc        |-> <<>>,
     \* the error returned
     ret        |-> [kind |-> "nil", msg |-> "", addr |-> <<>>],
     \* the calls of Gather on this plugin that returned before this one:
     \* what the server did in each, what was returned and emitted
     earlier    |-> <<>>]

Init ==
    /\ variant \in Variants
    /\ config \in Configs
    /\ pc = "dial"
    /\ net = InitNet
    /\ rec = [fields |-> EmptyMap, tags |-> EmptyMap]
    /\ success = FALSE
    /\ gather = InitGather(config, FALSE)

\* an outcome o = [net, rec, success] becomes the next state
Becomes(o) ==
    /\ net' = o.net
    /\ rec' = o.rec
    /\ success' = o.success

Since(n) == n.now - n.start

\* mutant: only `err != nil` is tested, a nil *tls.Config passes
TLSConfigUsable_IgnoresNil(c) == c.TLSConfig # "err"

\* `err != nil || tlsConfig == nil` is false
TLSConfigUsable(c) == c.TLSConfig = "ok"

\* The statements of SMTPGather after the greeting, in order, and the
\* condition under which each one does anything.  Control goes from a
\* statement straight to the next one whose condition holds; the final
\* statements (QUIT, total_time, return) always run.
Order == <<"connect", "ehlo", "starttls", "from", "to", "data", "quit">>

\* mutant: a strict client, MAIL FROM only after EHLO was configured
Guard_StrictClient(p, ok) ==
    CASE p = "ehlo"     -> ok /\ config.Ehlo # ""
      [] p = "starttls" -> ok /\ config.StartTls
      [] p = "from"     -> ok /\ config.From # "" /\ config.Ehlo # ""
      [] p = "to"       -> ok /\ config.To # ""
      [] p = "data"     -> ok /\ config.Body # ""
      [] OTHER          -> TRUE

\* mutant: the DATA step is tested on its setting alone, not on `success`
Guard_DataIgnoresFailure(p, ok) ==
    CASE p = "ehlo"     -> ok /\ config.Ehlo # ""
      [] p = "starttls" -> ok /\ config.StartTls
      [] p = "from"     -> ok /\ config.From # ""
      [] p = "to"       -> ok /\ config.To # ""
      [] p = "data"     -> config.Body # ""
      [] OTHER          -> TRUE

\* mutant: RCPT TO is tested on its setting alone, not on `success`
Guard_RcptIgnoresFailure(p, ok) ==
    CASE p = "ehlo"     -> ok /\ config.Ehlo # ""
      [] p = "starttls" -> ok /\ config.StartTls
      [] p = "from"     -> ok /\ config.From # ""
      [] p = "to"       -> config.To # ""
      [] p = "data"     -> ok /\ config.Body # ""
      [] OTHER          -> TRUE

Guard(p, ok) ==
    CASE p = "ehlo"     -> ok /\ config.Ehlo # ""
      [] p = "starttls" -> ok /\ config.StartTls
      [] p = "from"     -> ok /\ config.From # ""
      [] p = "to"       -> ok /\ config.To # ""
      [] p = "data"     -> ok /\ config.Body # ""
      [] OTHER          -> TRUE

PcIndex(p) == CHOOSE i \in 1..Len(Order) : Order[i] = p

\* mutant: the steps are nested, a skipped step ends the walk
NextPc_SkippedStepEndsWalk(p, ok) ==
    IF Guard(Order[PcIndex(p) + 1], ok)
    THEN Order[PcIndex(p) + 1]
    ELSE "quit"

\* mutant: a failed step is tried again instead of falling through
NextPc_RetriesFailedStep(p, ok) ==
    LET later == {i \in (PcIndex(p) + 1)..Len(Order) : Guard(Order[i], ok)}
    IN  IF ~ok /\ p # "connect"
        THEN p
        ELSE Order[CHOOSE i \in later : \A j \in later : i <= j]

NextPc(p, ok) ==
    LET later == {i \in (PcIndex(p) + 1)..Len(Order) : Guard(Order[i], ok)}
    IN  Order[CHOOSE i \in later : \A j \in later : i <= j]

----------------------------------------------------------------------------
(* smtp.go: SMTPGather *)

\* lines 109-123: dial; on failure classify and return
T_Dial ==
    /\ variant = "textproto"
    /\ pc = "dial"
    /\ \E c \in DialTimeout(net, config.Address, config.Timeout) :
          IF c.err.kind # "nil"
          THEN /\ net' = c.net
               /\ rec' = IF c.err.kind = "timeout"
                         THEN setResult(Timeout, rec)
                         ELSE setResult(ConnectionFailed, rec)
               /\ pc' = "done"
               /\ UNCHANGED success
          ELSE /\ net' = SetReadDeadline(c.net, config.ReadTimeout)
               /\ pc' = "connect"
               /\ UNCHANGED <<rec, success>>
    /\ UNCHANGED <<variant, config, gather>>

\* mutant: the timer is stopped when the dial returns, before the greeting
T_Connect_LatchBeforeRead ==
    /\ variant = "textproto"
    /\ pc = "connect"
    /\ \E o \in checkResponse(Enter(net, Connect), Connect, 220, rec) :
          LET r1 == [o.rec EXCEPT !.fields = Put(@, "connect_time", Since(net))]
          IN  /\ rec' = r1
              /\ success' = o.success
              /\ IF ~o.success
                 THEN net' = Close(o.net) /\ pc' = "done"
                 ELSE net' = o.net /\ pc' = NextPc(pc, TRUE)
    /\ UNCHANGED <<variant, config, gather>>

\* lines 127-134: read the greeting, latch connect_time, return on failure
T_Connect ==
    /\ variant = "textproto"
    /\ pc = "connect"
    /\ \E o \in checkResponse(Enter(net, Connect), Connect, 220, rec) :
          LET r1 == [o.rec EXCEPT !.fields = Put(@, "connect_time", Since(o.net))]
          IN  /\ rec' = r1
              /\ success' = o.success
              /\ IF ~o.success
                 THEN net' = Close(o.net) /\ pc' = "done"
                 ELSE net' = o.net /\ pc' = NextPc(pc, TRUE)
    /\ UNCHANGED <<variant, config, gather>>

\* lines 139-141
T_Ehlo ==
    /\ variant = "textproto"
    /\ pc = "ehlo"
    /\ Guard(pc, success)
    /\ \E o \in performCommand(Enter(net, Ehlo), Ehlo, "EHLO " \o config.Ehlo, 250, rec) :
           Becomes(o)
    /\ pc' = NextPc(pc, success')
    /\ UNCHANGED <<variant, config, gather>>

\* mutant: after the 220 the connection is not wrapped by tls.Client
T_StartTls_NoUpgrade ==
    /\ variant = "textproto"
    /\ pc = "starttls"
    /\ Guard(pc, success)
    /\ IF ~TLSConfigUsable(config)
       THEN \E c \in Cmd(Enter(net, StartTls), Quit, "QUIT") :
               /\ net' = c.net
               /\ rec' = setResult(TlsConfigError, rec)
               /\ success' = FALSE
       ELSE \E o \in performCommand(Enter(net, StartTls), StartTls, "STARTTLS", 220, rec) :
               Becomes(o)
    /\ pc' = NextPc(pc, success')
    /\ UNCHANGED <<variant, config, gather>>

\* lines 142-159
T_StartTls ==
    /\ variant = "textproto"
    /\ pc = "starttls"
    /\ Guard(pc, success)
    /\ IF ~TLSConfigUsable(config)
       THEN \E c \in Cmd(Enter(net, StartTls), Quit, "QUIT") :
               /\ net' = c.net
               /\ rec' = setResult(TlsConfigError, rec)
               /\ success' = FALSE
       ELSE \E o \in performCommand(Enter(net, StartTls), StartTls, "STARTTLS", 220, rec) :
               /\ rec' = o.rec
               /\ success' = o.success
               /\ net' = IF o.success
                         THEN [o.net EXCEPT !.tls = "pending"]
                         ELSE o.net
    /\ pc' = NextPc(pc, success')
    /\ UNCHANGED <<variant, config, gather>>

\* lines 160-162
T_MailFrom ==
    /\ variant = "textproto"
    /\ pc = "from"
    /\ Guard(pc, success)
    /\ \E o \in performCommand(Enter(net, MailFrom), MailFrom, "MAIL FROM:" \o config.From, 250, rec) :
           Becomes(o)
    /\ pc' = NextPc(pc, success')
    /\ UNCHANGED <<variant, config, gather>>

\* lines 164-166
T_RcptTo ==
    /\ variant = "textproto"
    /\ pc = "to"
    /\ Guard(pc, success)
    /\ \E o \in performCommand(Enter(net, RcptTo), RcptTo, "RCPT TO:" \o config.To, 250, rec) :
           Becomes(o)
    /\ pc' = NextPc(pc, success')
    /\ UNCHANGED <<variant, config, gather>>

\* mutant: the payload is written whatever the reply to DATA was
T_Data_PayloadAnyway ==
    /\ variant = "textproto"
    /\ pc = "data"
    /\ Guard(pc, success)
    /\ \E o \in performCommand(Enter(net, Data), Data, "DATA", 354, rec) :
           \E o2 \in performCommand(Enter(o.net, Body), Body,
                                     config.Body \o "\r\n.\r\n", 250, o.rec) :
               Becomes(o2)
    /\ pc' = NextPc(pc, success')
    /\ UNCHANGED <<variant, config, gather>>

\* lines 167-174: DATA, then the payload
T_Data ==
    /\ variant = "textproto"
    /\ pc = "data"
    /\ Guard(pc, success)
    /\ \E o \in performCommand(Enter(net, Data), Data, "DATA", 354, rec) :
           IF o.success
           THEN \E o2 \in performCommand(Enter(o.net, Body), Body,
                                         config.Body \o "\r\n.\r\n", 250, o.rec) :
                   Becomes(o2)
           ELSE Becomes(o)
    /\ pc' = NextPc(pc, success')
    /\ UNCHANGED <<variant, config, gather>>

\* mutant: the timer is restarted once the greeting was read
T_Quit_TimerRestarted ==
    /\ variant = "textproto"
    /\ pc = "quit"
    /\ \E o \in (IF success
                 THEN performCommand(Enter(net, Quit), Quit, "QUIT", 221, rec)
                 ELSE {[net |-> net, rec |-> rec, success |-> success]}) :
          /\ net' = Close(o.net)
          /\ rec' = [o.rec EXCEPT !.fields =
                        Put(@, "total_time", o.net.now - o.net.reads[1].at)]
          /\ UNCHANGED success
    /\ pc' = "done"
    /\ UNCHANGED <<variant, config, gather>>

\* mutant: QUIT is performed whatever `success` is, as the comment says
T_Quit_AlwaysQuits ==
    /\ variant = "textproto"
    /\ pc = "quit"
    /\ \E o \in performCommand(Enter(net, Quit), Quit, "QUIT", 221, rec) :
          /\ net' = Close(o.net)
          /\ rec' = [o.rec EXCEPT !.fields = Put(@, "total_time", Since(o.net))]
          /\ UNCHANGED success
    /\ pc' = "done"
    /\ UNCHANGED <<variant, config, gather>>

\* lines 176-184: QUIT if everything succeeded, total_time, return
\* (the deferred Close calls run)
T_Quit ==
    /\ variant = "textproto"
    /\ pc = "quit"
    /\ \E o \in (IF success
                 THEN performCommand(Enter(net, Quit), Quit, "QUIT", 221, rec)
                 ELSE {[net |-> net, rec |-> rec, success |-> success]}) :
          /\ net' = Close(o.net)
          /\ rec' = [o.rec EXCEPT !.fields = Put(@, "total_time", Since(o.net))]
          /\ UNCHANGED success
    /\ pc' = "done"
    /\ UNCHANGED <<variant, config, gather>>

----------------------------------------------------------------------------
(* The net/smtp client used by the second implementation.  Every method    *)
(* yields the set of its possible outcomes [net, err].                     *)

\* Client.cmd: write the command, read the reply
cmd(n, operation, expectCode, msg) ==
    UNION { IF c.err.kind # "nil"
            THEN {[net |-> c.net, err |-> c.err]}
            ELSE { [net |-> rd.net, err |-> rd.err] :
                     rd \in ReadResponse(c.net, operation, expectCode) } :
            c \in Cmd(n, operation, msg) }

ehlo(n) == cmd(n, "ehlo", 250, "EHLO " \o n.localName)

helo(n) == cmd(n, "helo", 250, "HELO " \o n.localName)

\* Client.hello: EHLO once per client, HELO when EHLO fails
hello(n) ==
    IF ~n.didHello
    THEN UNION { IF e.err.kind = "nil"
                 THEN {[net |-> e.net, err |-> e.net.helloError]}
                 ELSE { [net |-> [h.net EXCEPT !.helloError = h.err],
                         err |-> h.err] : h \in helo(e.net) } :
                 e \in ehlo([n EXCEPT !.didHello = TRUE]) }
    ELSE {[net |-> n, err |-> n.helloError]}

\* smtp.NewClient: read the greeting; on error close the connection
NewClient(n) ==
    { IF rd.err.kind # "nil"
      THEN [net |-> Close(rd.net), err |-> rd.err]
      ELSE [net |-> rd.net, err |-> NoErr] :
      rd \in ReadResponse(n, Connect, 220) }

\* Client.Hello(localName)
ClientHello(n, localName) ==
    IF n.didHello
    THEN {[net |-> n, err |-> [kind |-> "other", code |-> 0]]}
    ELSE hello([n EXCEPT !.localName = localName])

\* Client.StartTLS: hello, STARTTLS, wrap the connection, EHLO again
ClientStartTLS(n) ==
    UNION { IF h.err.kind # "nil" THEN {h}
            ELSE UNION { IF s.err.kind # "nil" THEN {s}
                         ELSE ehlo([s.net EXCEPT !.tls = "pending"]) :
                         s \in cmd(h.net, StartTls, 220, "STARTTLS") } :
            h \in hello(n) }

\* Client.Mail(from)
ClientMail(n, from) ==
    UNION { IF h.err.kind # "nil" THEN {h}
            ELSE cmd(h.net, MailFrom, 250, "MAIL FROM:<" \o from \o ">") :
            h \in hello(n) }

\* Client.Rcpt(to): any 25x reply is accepted
ClientRcpt(n, to) == cmd(n, RcptTo, 25, "RCPT TO:<" \o to \o ">")

\* Client.Data
ClientData(n) == cmd(n, Data, 354, "DATA")

\* w.Write(body) followed by w.Close(): the payload and the closing dot are
\* written (err1), then the reply is read whatever the write did (err2)
WriteAndClose(n, body) ==
    UNION { { [net |-> rd.net, err1 |-> c.err, err2 |-> rd.err] :
                rd \in ReadResponse(c.net, Body, 250) } :
            c \in Cmd(n, Body, body \o "\r\n.\r\n") }

\* Client.Quit: hello, QUIT, close
ClientQuit(n) ==
    UNION { IF h.err.kind # "nil" THEN {h}
            ELSE { IF q.err.kind # "nil" THEN q
                   ELSE [net |-> Close(q.net), err |-> NoErr] :
                   q \in cmd(h.net, Quit, 221, "QUIT") } :
            h \in hello(n) }

----------------------------------------------------------------------------
(* The net/smtp implementation: setResult, setErrorMetrics,                *)
(* setResponseCodeMetric, SMTPGather                                       *)

setResultN(result, r) ==
    [fields |-> Put(r.fields, "result_code", result),
     tags   |-> Put(r.tags, "result",
                    CASE result = Success -> "success"
                      [] result = Timeout -> "timeout"
                      [] result = ConnectionFailed -> "connection_failed"
                      [] result = ReadFailed -> "read_failed"
                      [] result = StringMismatch -> "string_mismatch"
                      [] result = TlsConfigError -> "tls_config_error"
                      [] OTHER -> "")]

\* mutant: the `operation == Connect` case is missing
setErrorMetrics_NoConnectCase(operation, err, r) ==
    IF err.kind = "nil" THEN setResultN(Success, r)
    ELSE IF err.kind = "timeout" THEN setResultN(Timeout, r)
    ELSE IF err.kind = "textproto" /\ err.code # 0
         THEN setResultN(StringMismatch,
                         [r EXCEPT !.fields = Put(@, CodeField(operation), err.code)])
    ELSE setResultN(ReadFailed, r)

setErrorMetrics(operation, err, r) ==
    IF err.kind = "nil" THEN setResultN(Success, r)
    ELSE IF err.kind = "timeout" THEN setResultN(Timeout, r)
    ELSE IF operation = Connect THEN setResultN(ConnectionFailed, r)
    ELSE IF err.kind = "textproto" /\ err.code # 0
         THEN setResultN(StringMismatch,
                         [r EXCEPT !.fields = Put(@, CodeField(operation), err.code)])
    ELSE setResultN(ReadFailed, r)

setResponseCodeMetric(operation, expectedCode, r) ==
    [r EXCEPT !.fields = Put(@, CodeField(operation), expectedCode)]

\* the outcome of `if err := call; err != nil {setErrorMetrics; success =
\* false} else {setResponseCodeMetric}` for one outcome c of the call
Recorded(c, operation, expectedCode, r) ==
    IF c.err.kind # "nil"
    THEN [net |-> c.net, rec |-> setErrorMetrics(operation, c.err, r),
          success |-> FALSE]
    ELSE [net |-> c.net, rec |-> setResponseCodeMetric(operation, expectedCode, r),
          success |-> TRUE]

\* part_000 lines 490-497
N_Dial ==
    /\ variant = "netsmtp"
    /\ pc = "dial"
    /\ \E c \in DialTimeout(net, config.Address, config.Timeout) :
          IF c.err.kind # "nil"
          THEN /\ net' = c.net
               /\ rec' = setErrorMetrics(Connect, c.err, rec)
               /\ pc' = "done"
          ELSE /\ net' = SetReadDeadline(c.net, config.ReadTimeout)
               /\ pc' = "connect"
               /\ UNCHANGED rec
    /\ UNCHANGED <<variant, config, success, gather>>

\* lines 501-515
N_Connect ==
    /\ variant = "netsmtp"
    /\ pc = "connect"
    /\ \E c \in NewClient(Enter(net, Connect)) :
          IF c.err.kind # "nil"
          THEN /\ net' = Close(c.net)
               /\ rec' = setErrorMetrics(Connect, c.err, rec)
               /\ pc' = "done"
               /\ UNCHANGED success
          ELSE /\ net' = c.net
               /\ rec' = setResponseCodeMetric(Connect, 220,
                            [rec EXCEPT !.fields = Put(@, "connect_time", Since(c.net))])
               /\ success' = TRUE
               /\ pc' = NextPc(pc, TRUE)
    /\ UNCHANGED <<variant, config, gather>>

\* lines 517-524
N_Ehlo ==
    /\ variant = "netsmtp"
    /\ pc = "ehlo"
    /\ Guard(pc, success)
    /\ \E c \in ClientHello(Enter(net, Ehlo), config.Ehlo) :
           Becomes(Recorded(c, Ehlo, 250, rec))
    /\ pc' = NextPc(pc, success')
    /\ UNCHANGED <<variant, config, gather>>

\* lines 525-540
N_StartTls ==
    /\ variant = "netsmtp"
    /\ pc = "starttls"
    /\ Guard(pc, success)
    /\ IF ~TLSConfigUsable(config)
       THEN /\ rec' = setResultN(TlsConfigError, rec)
            /\ success' = FALSE
            /\ net' = Enter(net, StartTls)
       ELSE \E c \in ClientStartTLS(Enter(net, StartTls)) :
               Becomes(Recorded(c, StartTls, 220, rec))
    /\ pc' = NextPc(pc, success')
    /\ UNCHANGED <<variant, config, gather>>

\* lines 542-549
N_MailFrom ==
    /\ variant = "netsmtp"
    /\ pc = "from"
    /\ Guard(pc, success)
    /\ \E c \in ClientMail(Enter(net, MailFrom), config.From) :
           Becomes(Recorded(c, MailFrom, 250, rec))
    /\ pc' = NextPc(pc, success')
    /\ UNCHANGED <<variant, config, gather>>

\* lines 551-558
N_RcptTo ==
    /\ variant = "netsmtp"
    /\ pc = "to"
    /\ Guard(pc, success)
    /\ \E c \in ClientRcpt(Enter(net, RcptTo), config.To) :
           Becomes(Recorded(c, RcptTo, 250, rec))
    /\ pc' = NextPc(pc, success')
    /\ UNCHANGED <<variant, config, gather>>

\* lines 568-578: the outcome of writing the payload; on err1 the error
\* handed to setErrorMetrics is `err`, the (nil) error of client.Data()
BodyRecorded(w, dataErr, r) ==
    IF w.err1.kind # "nil"
    THEN [net |-> w.net, rec |-> setErrorMetrics(Body, dataErr, r),
          success |-> FALSE]
    ELSE IF w.err2.kind # "nil"
    THEN [net |-> w.net, rec |-> setErrorMetrics(Body, w.err2, r),
          success |-> FALSE]
    ELSE [net |-> w.net, rec |-> setResponseCodeMetric(Body, 250, r),
          success |-> TRUE]

\* lines 559-580
N_Data ==
    /\ variant = "netsmtp"
    /\ pc = "data"
    /\ Guard(pc, success)
    /\ \E c \in ClientData(Enter(net, Data)) :
           IF c.err.kind # "nil"
           THEN Becomes(Recorded(c, Data, 354, rec))
           ELSE \E w \in WriteAndClose(Enter(c.net, Body), config.Body) :
                   Becomes(BodyRecorded(w, c.err,
                               setResponseCodeMetric(Data, 354, rec)))
    /\ pc' = NextPc(pc, success')
    /\ UNCHANGED <<variant, config, gather>>

\* lines 595-598
FinalResult(ok, r) == IF ok THEN setResultN(Success, r) ELSE r

\* mutant: the error of the cleanup QUIT is handed to setErrorMetrics
N_Quit_RecordsCleanup ==
    /\ variant = "netsmtp"
    /\ pc = "quit"
    /\ \E c \in ClientQuit(IF success THEN Enter(net, Quit) ELSE EnterCleanup(net)) :
          LET o == IF success \/ c.err.kind # "nil"
                   THEN Recorded(c, Quit, 221, rec)
                   ELSE [net |-> c.net, rec |-> rec, success |-> FALSE]
              r1 == FinalResult(o.success, o.rec)
          IN  /\ net' = Close(o.net)
              /\ rec' = [r1 EXCEPT !.fields = Put(@, "total_time", Since(o.net))]
              /\ success' = (o.success /\ success)
    /\ pc' = "done"
    /\ UNCHANGED <<variant, config, gather>>

\* mutant: the cleanup QUIT is under `if !success` after the QUIT step, not
\* in its else branch, so a failed QUIT is followed by a second one
N_Quit_CleanupAfterFailedQuit ==
    /\ variant = "netsmtp"
    /\ pc = "quit"
    /\ \E c \in ClientQuit(IF success THEN Enter(net, Quit) ELSE EnterCleanup(net)) :
          LET o == IF success
                   THEN Recorded(c, Quit, 221, rec)
                   ELSE [net |-> c.net, rec |-> rec, success |-> FALSE]
          IN  \E c2 \in (IF success /\ ~o.success
                          THEN ClientQuit(EnterCleanup(o.net))
                          ELSE {[net |-> o.net, err |-> NoErr]}) :
                 LET r1 == FinalResult(o.success, o.rec)
                 IN  /\ net' = Close(c2.net)
                     /\ rec' = [r1 EXCEPT !.fields =
                                   Put(@, "total_time", Since(c2.net))]
                     /\ success' = o.success
    /\ pc' = "done"
    /\ UNCHANGED <<variant, config, gather>>

\* lines 582-602: QUIT, the final result, total_time, return
N_Quit ==
    /\ variant = "netsmtp"
    /\ pc = "quit"
    /\ \E c \in ClientQuit(IF success THEN Enter(net, Quit) ELSE EnterCleanup(net)) :
          LET o == IF success
                   THEN Recorded(c, Quit, 221, rec)
                   ELSE [net |-> c.net, rec |-> rec, success |-> FALSE]
              r1 == FinalResult(o.success, o.rec)
          IN  /\ net' = Close(o.net)
              /\ rec' = [r1 EXCEPT !.fields = Put(@, "total_time", Since(o.net))]
              /\ success' = o.success
    /\ pc' = "done"
    /\ UNCHANGED <<variant, config, gather>>

----------------------------------------------------------------------------
(* smtp2.go: the implementation with a result of its own for every step.   *)
(* It sets no read deadline.                                               *)

EhloFailed == 4
StartTlsFailed == 5
MailFromFailed == 6
RcptToFailed == 7
DataFailed == 8
QuitFailed == 9
\* TlsConfigError in the ResultType of smtp2.go
TlsConfigErrorS == 10

\* lines 229-258
setResultS(result, r) ==
    [fields |-> Put(r.fields, "result_code", result),
     tags   |-> Put(r.tags, "result",
                    CASE result = Success -> "success"
                      [] result = Timeout -> "timeout"
                      [] result = ConnectionFailed -> "connection_failed"
                      [] result = ReadFailed -> "read_failed"
                      [] result = EhloFailed -> "ehlo_failed"
                      [] result = MailFromFailed -> "from_failed"
                      [] result = RcptToFailed -> "to_failed"
                      [] result = StartTlsFailed -> "starttls_failed"
                      [] result = DataFailed -> "data_failed"
                      [] result = QuitFailed -> "quit_failed"
                      [] result = TlsConfigErrorS -> "tls_config_error"
                      [] OTHER -> "")]

\* lines 211-214
setSuccessMetrics(result, operation, expectedCode, r) ==
    [setResultS(result, r) EXCEPT
        !.fields = Put(@, CodeField(operation), expectedCode)]

\* lines 216-227: with a nil error the result handed in is recorded
setErrorMetricsS(result, operation, err, r) ==
    IF err.kind = "nil" THEN setResultS(result, r)
    ELSE IF err.kind = "timeout" THEN setResultS(Timeout, r)
    ELSE IF err.kind = "textproto" /\ err.code # 0
         THEN setResultS(result,
                         [r EXCEPT !.fields = Put(@, CodeField(operation), err.code)])
    ELSE setResultS(ReadFailed, r)

\* lines 203-209
endTimerAndReturnMetrics(n, r) ==
    [r EXCEPT !.fields = Put(@, "total_time", Since(n))]

\* lines 185-189: client.Quit(), its error dropped, total_time
earlyEndSmtpSession(n, r) ==
    { [net |-> q.net, rec |-> endTimerAndReturnMetrics(q.net, r)] :
        q \in ClientQuit(EnterCleanup(n)) }

\* lines 192-200: client.Quit(), its outcome recorded, total_time
endSmtpSession(n, r) ==
    { [net |-> q.net,
       rec |-> endTimerAndReturnMetrics(q.net,
                  IF q.err.kind # "nil"
                  THEN setErrorMetricsS(QuitFailed, Quit, q.err, r)
                  ELSE setSuccessMetrics(Success, Quit, 221, r))] :
        q \in ClientQuit(Enter(n, Quit)) }

\* `if setting == "" { endSmtpSession(...) }` (lines 111-113, 138-140,
\* 149-151, 160-162): what endSmtpSession returns is dropped and SMTPGather
\* goes on with the statement that follows
IfUnset(unset, n, r) ==
    IF unset
    THEN endSmtpSession(n, r)
    ELSE { [net |-> n, rec |-> r] }

\* `return earlyEndSmtpSession(...)` with the record r; the deferred
\* client.Close() runs
ReturnsEarly(n, r) ==
    \E e \in earlyEndSmtpSession(n, r) :
        /\ net' = Close(e.net)
        /\ rec' = e.rec
        /\ pc' = "done"

\* the statement after the ehlo step
AfterEhlo == IF config.StartTls THEN "starttls" ELSE "from"

\* lines 94-103: a failed dial is recorded with a nil error
S_Dial ==
    /\ variant = "stepspecific"
    /\ pc = "dial"
    /\ \E c \in DialTimeout(net, config.Address, config.Timeout) :
          IF c.err.kind # "nil"
          THEN /\ net' = c.net
               /\ rec' = endTimerAndReturnMetrics(c.net,
                            setErrorMetricsS(ConnectionFailed, Connect, NoErr, rec))
               /\ pc' = "done"
          ELSE /\ net' = c.net
               /\ rec' = setSuccessMetrics(Success, Connect, 220, rec)
               /\ pc' = "connect"
    /\ UNCHANGED <<variant, config, success, gather>>

\* lines 104-108: the error of smtp.NewClient is not looked at.  When the
\* greeting could not be read as 220 the client is nil, and the first use of
\* it in the next statement (client.Quit or client.Hello) is a nil pointer
\* dereference: SMTPGather panics and returns nothing.
S_Connect ==
    /\ variant = "stepspecific"
    /\ pc = "connect"
    /\ \E c \in NewClient(Enter(net, Connect)) :
          /\ net' = c.net
          /\ rec' = [rec EXCEPT !.fields = Put(@, "connect_time", Since(c.net))]
          /\ pc' = IF c.err.kind # "nil" THEN "panicked" ELSE "ehlo"
    /\ UNCHANGED <<variant, config, success, gather>>

\* lines 110-119
S_Ehlo ==
    /\ variant = "stepspecific"
    /\ pc = "ehlo"
    /\ \E p \in IfUnset(config.Ehlo = "", net, rec) :
          \E c \in ClientHello(Enter(p.net, Ehlo), config.Ehlo) :
              IF c.err.kind # "nil"
                  THEN ReturnsEarly(c.net,
                          setErrorMetricsS(EhloFailed, Ehlo, c.err, p.rec))
                  ELSE /\ net' = c.net
                       /\ rec' = setSuccessMetrics(Success, Ehlo, 250, p.rec)
                       /\ pc' = AfterEhlo
    /\ UNCHANGED <<variant, config, success, gather>>

\* lines 121-135
S_StartTls ==
    /\ variant = "stepspecific"
    /\ pc = "starttls"
    /\ IF ~TLSConfigUsable(config)
       THEN ReturnsEarly(Enter(net, StartTls), setResultS(TlsConfigErrorS, rec))
       ELSE \E c \in ClientStartTLS(Enter(net, StartTls)) :
               IF c.err.kind # "nil"
               THEN ReturnsEarly(c.net,
                       setErrorMetricsS(StartTlsFailed, StartTls, c.err, rec))
               ELSE /\ net' = c.net
                    /\ rec' = setSuccessMetrics(Success, StartTls, 220, rec)
                    /\ pc' = "from"
    /\ UNCHANGED <<variant, config, success, gather>>

\* lines 137-146
S_MailFrom ==
    /\ variant = "stepspecific"
    /\ pc = "from"
    /\ \E p \in IfUnset(config.From = "", net, rec) :
          \E c \in ClientMail(Enter(p.net, MailFrom), config.From) :
                  IF c.err.kind # "nil"
                  THEN ReturnsEarly(c.net,
                          setErrorMetricsS(MailFromFailed, MailFrom, c.err, p.rec))
                  ELSE /\ net' = c.net
                       /\ rec' = setSuccessMetrics(Success, MailFrom, 250, p.rec)
                       /\ pc' = "to"
    /\ UNCHANGED <<variant, config, success, gather>>

\* lines 148-157
S_RcptTo ==
    /\ variant = "stepspecific"
    /\ pc = "to"
    /\ \E p \in IfUnset(config.To = "", net, rec) :
          \E c \in ClientRcpt(Enter(p.net, RcptTo), config.To) :
                  IF c.err.kind # "nil"
                  THEN ReturnsEarly(c.net,
                          setErrorMetricsS(RcptToFailed, RcptTo, c.err, p.rec))
                  ELSE /\ net' = c.net
                       /\ rec' = setSuccessMetrics(Success, RcptTo, 250, p.rec)
                       /\ pc' = "data"
    /\ UNCHANGED <<variant, config, success, gather>>

\* lines 168-178: on err1 the error handed to setErrorMetrics is `err`, the
\* (nil) error of client.Data()
PayloadRecorded(w, dataErr, r) ==
    IF w.err1.kind # "nil"
    THEN setErrorMetricsS(DataFailed, Data, dataErr, r)
    ELSE IF w.err2.kind # "nil"
    THEN setErrorMetricsS(DataFailed, Data, w.err2, r)
    ELSE setSuccessMetrics(Success, Data, 250, r)

\* lines 159-178
S_Data ==
    /\ variant = "stepspecific"
    /\ pc = "data"
    /\ \E p \in IfUnset(config.Body = "", net, rec) :
          \E c \in ClientData(Enter(p.net, Data)) :
                  IF c.err.kind # "nil"
                  THEN ReturnsEarly(c.net,
                          setErrorMetricsS(DataFailed, Data, c.err, p.rec))
                  ELSE \E w \in WriteAndClose(Enter(c.net, Body), config.Body) :
                          IF w.err1.kind # "nil" \/ w.err2.kind # "nil"
                          THEN ReturnsEarly(w.net,
                                  PayloadRecorded(w, c.err, p.rec))
                          ELSE /\ net' = w.net
                               /\ rec' = PayloadRecorded(w, c.err, p.rec)
                               /\ pc' = "quit"
    /\ UNCHANGED <<variant, config, success, gather>>

\* lines 180-181: `return endSmtpSession(...)`; the deferred client.Close()
S_Quit ==
    /\ variant = "stepspecific"
    /\ pc = "quit"
    /\ \E e \in endSmtpSession(net, rec) :
          /\ net' = Close(e.net)
          /\ rec' = e.rec
    /\ pc' = "done"
    /\ UNCHANGED <<variant, config, success, gather>>

InitS ==
    /\ variant = "stepspecific"
    /\ config \in Configs
    /\ pc = "dial"
    /\ net = InitNet
    /\ rec = [fields |-> EmptyMap, tags |-> EmptyMap]
    /\ success = FALSE
    /\ gather = InitGather(config, FALSE)

NextS ==
    \/ S_Dial
    \/ S_Connect
    \/ S_Ehlo
    \/ S_StartTls
    \/ S_MailFrom
    \/ S_RcptTo
    \/ S_Data
    \/ S_Quit

SpecS == InitS /\ [][NextS]_vars

----------------------------------------------------------------------------
(* Gather (the same function in both implementations)                      *)

\* what the plugin may be configured with when Gather is called: any
\* address, each timeout unset or set, and as optional settings none, the
\* whole mail transaction in plaintext, or EHLO and STARTTLS alone
GatherConfigs ==
    { c \in [Address     : Addresses,
             Ehlo        : {"", "me@test.com"},
             StartTls    : BOOLEAN,
             From        : {"", "me2@test.com"},
             To          : {"", "me3@test.com"},
             Body        : {"", "testdata 12345"},
             TLSConfig   : {"ok", "nil", "err"},
             Timeout     : {0, ConnectTimeoutTicks},
             ReadTimeout : {0, ReadTimeoutTicks}] :
        /\ c.StartTls \/ c.TLSConfig = "nil"
        /\ (c.From = "") = (c.To = "")
        /\ (c.To = "") = (c.Body = "")
        /\ c.From # "" => (c.Ehlo # "" /\ ~c.StartTls)
        /\ c.StartTls = (c.Ehlo # "" /\ c.From = "") }

InitG ==
    /\ variant \in Variants
    /\ config \in GatherConfigs
    /\ pc = "gather"
    /\ net = InitNet
    /\ rec = [fields |-> EmptyMap, tags |-> EmptyMap]
    /\ success = FALSE
    /\ gather = InitGather(config, TRUE)

\* mutant: the defaults are assigned without the test for zero
WithDefaults_OverridesConfigured(c) ==
    [c EXCEPT !.Timeout = Second, !.ReadTimeout = Second * 10]

\* the defaults of the two timeouts
WithDefaults(c) ==
    [c EXCEPT !.Timeout = IF @ = 0 THEN Second ELSE @,
              !.ReadTimeout = IF @ = 0 THEN Second * 10 ELSE @]

\* mutant: the empty host is left in the address
WithHost_KeepsAddress(c, host, port) == c

\* `if host == "" { smtp.Address = "localhost:" + port }`
WithHost(c, host, port) ==
    IF host = <<>>
    THEN [c EXCEPT !.Address = Localhost \o <<":">> \o port]
    ELSE c

\* mutant: the test `port == ""` is missing
Gather_NoBadPortCheck ==
    /\ pc = "gather"
    /\ LET sp == SplitHostPort(config.Address)
           c1 == WithDefaults(config)
       IN  IF sp.err.kind # "nil"
           THEN /\ config' = c1
                /\ gather' = [gather EXCEPT !.ret = sp.err]
                /\ pc' = "returned"
           ELSE /\ config' = WithHost(c1, sp.host, sp.port)
                /\ gather' = [gather EXCEPT !.tags =
                                 [k \in {"server", "port"} |->
                                    IF k = "server" THEN sp.host
                                                    ELSE sp.port]]
                /\ pc' = "dial"
    /\ UNCHANGED <<variant, net, rec, success>>

\* Gather up to the call of SMTPGather: defaults, host and port, the early
\* returns, the base tags
Gather ==
    /\ pc = "gather"
    /\ LET sp == SplitHostPort(config.Address)
           c1 == WithDefaults(config)
       IN  IF sp.err.kind # "nil"
           THEN /\ config' = c1
                /\ gather' = [gather EXCEPT !.ret = sp.err]
                /\ pc' = "returned"
           ELSE /\ config' = WithHost(c1, sp.host, sp.port)
                /\ IF sp.port = <<>>
                   THEN /\ gather' = [gather EXCEPT !.ret =
                                         [kind |-> "errorString",
                                          msg |-> "Bad port", addr |-> <<>>]]
                        /\ pc' = "returned"
                   ELSE /\ gather' = [gather EXCEPT !.tags =
                                         [k \in {"server", "port"} |->
                                            IF k = "server" THEN sp.host
                                                            ELSE sp.port]]
                        /\ pc' = "dial"
    /\ UNCHANGED <<variant, net, rec, success>>

\* Gather after SMTPGather returned: merge the tags, add the measurement
GatherReturn ==
    /\ pc = "done"
    /\ gather.called
    /\ LET tags == Merge(gather.tags, rec.tags)
       IN  gather' = [gather EXCEPT
                         !.tags = tags,
                         !.acc = Append(@, [measurement |-> "smtp",
                                            fields |-> rec.fields,
                                            tags |-> tags])]
    /\ pc' = "returned"
    /\ UNCHANGED <<variant, config, net, rec, success>>

----------------------------------------------------------------------------
Next ==
    \/ T_Dial
    \/ T_Connect
    \/ T_Ehlo
    \/ T_StartTls
    \/ T_MailFrom
    \/ T_RcptTo
    \/ T_Data
    \/ T_Quit
    \/ N_Dial
    \/ N_Connect
    \/ N_Ehlo
    \/ N_StartTls
    \/ N_MailFrom
    \/ N_RcptTo
    \/ N_Data
    \/ N_Quit

Spec == Init /\ [][Next]_vars

NextG ==
    \/ Gather
    \/ Next
    \/ GatherReturn

SpecG == InitG /\ [][NextG]_vars

----------------------------------------------------------------------------
(* Gather called again on the same plugin (telegraf calls Gather on every  *)
(* interval, on the same *Smtp value)                                      *)

MaxCalls == 2

IsPrefix(s, t) == Len(s) <= Len(t) /\ s = SubSeq(t, 1, Len(s))

\* what the server and the network do in this call is what they did in the
\* call before: the same outcome of the dial, the same replies at the same
\* moments, the same writes failing
SameServer ==
    gather.earlier = <<>> \/
        LET before == gather.earlier[Len(gather.earlier)].net
        IN  /\ IsPrefix(net.reads, before.reads)
            /\ IsPrefix(net.sent, before.sent)
            /\ net.dialed # <<>> =>
                  /\ before.dialed # <<>>
                  /\ net.dialErr = before.dialErr
                  /\ net.connectedAt = before.connectedAt
            /\ net.writeBroken => before.writeBroken

\* telegraf calls Gather again: the receiver keeps its fields, everything
\* local to Gather and SMTPGather is new
GatherAgain ==
    /\ pc = "returned"
    /\ gather.called
    /\ Len(gather.earlier) + 1 < MaxCalls
    /\ gather' = [gather EXCEPT
                     !.earlier = Append(@, [net |-> net,
                                            ret |-> gather.ret,
                                            emitted |-> Len(gather.acc)]),
                     !.tags = EmptyMap,
                     !.ret = [kind |-> "nil", msg |-> "", addr |-> <<>>]]
    /\ pc' = "gather"
    /\ net' = InitNet
    /\ rec' = [fields |-> EmptyMap, tags |-> EmptyMap]
    /\ success' = FALSE
    /\ UNCHANGED <<variant, config>>

InitR == InitG /\ variant = "textproto"

NextR ==
    \/ Gather
    \/ T_Dial /\ SameServer'
    \/ T_Connect /\ SameServer'
    \/ T_Ehlo /\ SameServer'
    \/ T_StartTls /\ SameServer'
    \/ T_MailFrom /\ SameServer'
    \/ T_RcptTo /\ SameServer'
    \/ T_Data /\ SameServer'
    \/ T_Quit /\ SameServer'
    \/ GatherReturn
    \/ GatherAgain

SpecR == InitR /\ [][NextR]_vars

----------------------------------------------------------------------------
(* Vocabulary of the properties *)

Returned == pc = "done"

Established == net.conn # "none"

Result == IF Has(rec.tags, "result") THEN rec.tags["result"] ELSE "<absent>"

\* -1 stands for an absent result_code
ResultCode == IF Has(rec.fields, "result_code") THEN rec.fields["result_code"] ELSE -1

AllOperations == {Operations[i] : i \in 1..Len(Operations)}

\* 0 stands for an absent code field
CodeOf(operation) ==
    IF Has(rec.fields, CodeField(operation))
    THEN rec.fields[CodeField(operation)] ELSE 0

\* the operations whose code field is in the record
Coded == {op \in AllOperations : Has(rec.fields, CodeField(op))}

Before(op1, op2) == OpIndex(op1) < OpIndex(op2)

\* the reply a healthy server gives to each command
HealthyCode(operation) ==
    CASE operation = Connect -> 220
      [] operation = StartTls -> 220
      [] operation = Data -> 354
      [] operation = Quit -> 221
      [] OTHER -> 250

\* the operations the configuration asks for
Configured ==
    {Connect, Quit}
        \cup (IF config.Ehlo # "" THEN {Ehlo} ELSE {})
        \cup (IF config.StartTls THEN {StartTls} ELSE {})
        \cup (IF config.From # "" THEN {MailFrom} ELSE {})
        \cup (IF config.To # "" THEN {RcptTo} ELSE {})
        \cup (IF config.Body # "" THEN {Data, Body} ELSE {})

QuitCount == Cardinality({i \in 1..Len(net.sent) : net.sent[i].msg = "QUIT"})

\* every network call so far went the way it goes against a healthy server
Healthy ==
    /\ net.dialErr = "nil"
    /\ ~net.writeBroken
    /\ \A i \in 1..Len(net.reads) :
          /\ net.reads[i].err = "nil"
          /\ net.reads[i].code = HealthyCode(net.reads[i].op)

----------------------------------------------------------------------------
(* Properties *)

\* C1: in the textproto variant, every session whose TCP connection was
\* established sends QUIT exactly once, whichever step failed, except when
\* the failure is at the QUIT step itself (then at most once).
C1_QuitExactlyOnce ==
    (variant = "textproto" /\ Returned /\ Established) =>
        IF success THEN QuitCount <= 1 ELSE QuitCount = 1

\* C2: every record SMTPGather returns contains total_time, on every exit
\* path, in both variants.
C2_TotalTimeAlways ==
    Returned => Has(rec.fields, "total_time")

\* C3: in the net/smtp variant a record with result=success has
\* result_code=0, quit_code=221 and a code for every configured step.
C3_SuccessMeansEveryStep ==
    (variant = "netsmtp" /\ Returned /\ Result = "success") =>
        /\ ResultCode = 0
        /\ CodeOf(Quit) = 221
        /\ Configured \subseteq Coded

\* C4: in the net/smtp variant, a well-formed greeting with a code other
\* than 220 gives result=string_mismatch and connect_code = that code.
C4_GreetingMismatch ==
    (variant = "netsmtp" /\ Returned /\ Len(net.reads) >= 1
        /\ net.reads[1].err = "textproto") =>
        /\ Result = "string_mismatch"
        /\ CodeOf(Connect) = net.reads[1].code

\* C5: in the textproto variant, a well-formed reply with the wrong code at
\* step X (ehlo, from, to, data, body) gives result=string_mismatch,
\* result_code=4, X_code = the observed code; the codes of the earlier steps
\* are kept and no code of a later step (quit included) is in the record.
C5_MismatchRecorded ==
    variant = "textproto" =>
        \A i \in 1..Len(net.reads) :
            LET r == net.reads[i] IN
            (r.err = "textproto" /\ r.op \in {Ehlo, MailFrom, RcptTo, Data, Body}) =>
                /\ Result = "string_mismatch"
                /\ ResultCode = 4
                /\ CodeOf(r.op) = r.code
                /\ \A j \in 1..(i - 1) :
                      /\ net.reads[j].err = "nil"
                      /\ CodeOf(net.reads[j].op) = net.reads[j].code
                /\ \A op \in AllOperations : Before(r.op, op) => op \notin Coded

C5_Witness ==
    /\ variant = "textproto"
    /\ Returned
    /\ config.Ehlo # "" /\ config.From # "" /\ config.To # ""
    /\ Len(net.reads) = 6
    /\ net.reads[6].op = Body
    /\ net.reads[6].err = "textproto"
    /\ net.reads[6].code = 421

\* C6: against a healthy server, for every combination of the optional
\* settings (with a usable TLS configuration), the result is success with
\* result_code 0 and the step codes present are exactly those of connect,
\* quit and the configured steps, each with its expected value.
C6_HealthySession ==
    (Returned /\ Healthy /\ (config.StartTls => config.TLSConfig = "ok")) =>
        /\ Result = "success"
        /\ ResultCode = 0
        /\ Coded = Configured
        /\ \A op \in Configured : CodeOf(op) = HealthyCode(op)

C6_Witness ==
    /\ Returned
    /\ Healthy
    /\ variant = "netsmtp"
    /\ config.Ehlo = "" /\ config.StartTls /\ config.TLSConfig = "ok"
    /\ config.From # "" /\ config.To = "" /\ config.Body # ""
    /\ Coded = {Connect, StartTls, MailFrom, Data, Body, Quit}

\* C7: a refused TCP connection gives result=connection_failed,
\* result_code=2, no step code, and no command is written.
C7_Refused ==
    (Returned /\ net.dialErr = "refused") =>
        /\ Result = "connection_failed"
        /\ ResultCode = 2
        /\ Coded = {}
        /\ net.sent = <<>>
        /\ net.reads = <<>>

C7_Witness ==
    /\ Returned
    /\ net.dialErr = "refused"
    /\ variant = "netsmtp"
    /\ Result = "connection_failed"

\* C8: when the connection is accepted and no greeting arrives before the
\* read deadline, the result is timeout, result_code=1, with no step code.
C8_GreetingTimeout ==
    (Returned /\ Len(net.reads) >= 1 /\ net.reads[1].err = "timeout") =>
        /\ Result = "timeout"
        /\ ResultCode = 1
        /\ Coded = {}

C8_Witness ==
    /\ Returned
    /\ variant = "textproto"
    /\ Len(net.reads) = 1
    /\ net.reads[1].err = "timeout"
    /\ net.reads[1].at = net.deadline
    /\ Result = "timeout"

\* C9: the read deadline is set once, when the connection is established,
\* and is never extended: no reply is read successfully at or after
\* connect time + ReadTimeout.  In the textproto variant, when the deadline
\* elapses while the reply of step X is awaited, the result is timeout
\* (result_code 1), X has no code, the codes of the earlier steps are kept
\* and no later read succeeds.
C9_SingleReadDeadline ==
    /\ net.deadlineSets = (IF Established THEN 1 ELSE 0)
    /\ Established => net.deadline = net.connectedAt + config.ReadTimeout
    /\ \A i \in 1..Len(net.reads) :
          net.reads[i].err = "nil" => net.reads[i].at < net.deadline
    /\ variant = "textproto" =>
          \A i \in 1..Len(net.reads) :
              LET r == net.reads[i] IN
              r.err = "timeout" =>
                  /\ Result = "timeout"
                  /\ ResultCode = 1
                  /\ r.op \notin Coded
                  /\ r.at >= net.deadline
                  /\ \A j \in 1..(i - 1) :
                        /\ net.reads[j].err = "nil"
                        /\ CodeOf(net.reads[j].op) = net.reads[j].code
                  /\ \A j \in (i + 1)..Len(net.reads) : net.reads[j].err # "nil"

\* the deadline runs out on the fourth reply although the server answers
\* it: the delays of the earlier replies have used up the budget
C9_Witness ==
    /\ variant = "textproto"
    /\ Returned
    /\ Len(net.reads) = 4
    /\ net.reads[4].op = RcptTo
    /\ net.reads[4].err = "timeout"
    /\ net.reads[3].at > net.reads[1].at
    /\ Coded = {Connect, Ehlo, MailFrom}

\* C10: when STARTTLS is requested and TLSConfig() returns an error or nil,
\* STARTTLS is never sent, the result is tls_config_error with result_code
\* 5, there is no starttls_code, connect_code and ehlo_code are kept, and
\* none of MAIL FROM, RCPT TO, DATA, body is attempted.
C10_TlsConfigError ==
    (StartTls \in net.entered /\ config.TLSConfig \in {"nil", "err"}) =>
        /\ \A i \in 1..Len(net.sent) :
              net.sent[i].op \notin {StartTls, MailFrom, RcptTo, Data, Body}
        /\ net.entered \cap {MailFrom, RcptTo, Data, Body} = {}
        /\ Result = "tls_config_error"
        /\ ResultCode = 5
        /\ Coded = {Connect} \cup (IF config.Ehlo # "" THEN {Ehlo} ELSE {})
        /\ \A op \in Coded : CodeOf(op) = HealthyCode(op)

C10_Witness ==
    /\ Returned
    /\ variant = "textproto"
    /\ config.TLSConfig = "nil"
    /\ config.Ehlo # "" /\ config.From # "" /\ config.Body # ""
    /\ StartTls \in net.entered
    /\ Result = "tls_config_error"

----------------------------------------------------------------------------
(* Vocabulary of the properties on TLS and on failed writes *)

\* README, Metrics: the result tags and their result_code
ReadmeResultCodes ==
    { <<"success", 0>>, <<"timeout", 1>>, <<"connection_failed", 2>>,
      <<"read_failed", 3>>, <<"string_mismatch", 4>>,
      <<"tls_config_error", 5>>, <<"command_failed", 6>> }

\* STARTTLS was requested and TLSConfig() gave an error or nil
TlsConfigFailed ==
    StartTls \in net.entered /\ config.TLSConfig \in {"nil", "err"}

\* STARTTLS was answered with 220
Upgraded ==
    \E j \in 1..Len(net.reads) :
        net.reads[j].op = StartTls /\ net.reads[j].err = "nil"

\* what is written after the TLS configuration error was detected
SentAfterTlsError ==
    {i \in 1..Len(net.sent) : net.sent[i].step \notin {Connect, Ehlo}}

AfterStartTls == {MailFrom, RcptTo, Data, Body, Quit}

\* the write of the command of the current step failed (the QUIT written on
\* a TLS configuration error is not the command of a step)
StepWriteFailed == net.writeBroken /\ ~TlsConfigFailed

\* C11: in the textproto variant a TLS configuration error is a hard stop
\* without QUIT: nothing is written after the error is detected.
C11_TlsErrorHardStop ==
    (variant = "textproto" /\ TlsConfigFailed) => SentAfterTlsError = {}

\* C11 as amended: after the TLS configuration error exactly one QUIT is
\* written as cleanup (none when that write fails), its reply is not read,
\* and no other command and no second QUIT follows.
C11_TlsErrorThenOneQuit ==
    (variant = "textproto" /\ TlsConfigFailed) =>
        /\ \A i \in SentAfterTlsError :
              net.sent[i].msg = "QUIT" /\ net.sent[i].step = StartTls
        /\ Cardinality(SentAfterTlsError) = (IF net.writeBroken THEN 0 ELSE 1)
        /\ \A j \in 1..Len(net.reads) : net.reads[j].step \in {Connect, Ehlo}
        /\ QuitCount <= 1
        /\ Result = "tls_config_error"

C11_Witness ==
    /\ variant = "textproto"
    /\ Returned
    /\ TlsConfigFailed
    /\ config.TLSConfig = "err"
    /\ config.From # ""
    /\ QuitCount = 1
    /\ net.sent[Len(net.sent)].step = StartTls

\* C12: in the textproto variant, once STARTTLS was answered with 220 every
\* later command is written, and every later reply read, through the TLS
\* connection; when the handshake fails no later command reaches the wire
\* and the result is not success.
C12_NoPlaintextDowngrade ==
    (variant = "textproto" /\ Upgraded) =>
        /\ \A i \in 1..Len(net.sent) :
              net.sent[i].op \in AfterStartTls => net.sent[i].secure
        /\ \A j \in 1..Len(net.reads) :
              net.reads[j].op \in AfterStartTls => net.reads[j].secure
        /\ (net.tls = "pending" /\ net.writeBroken) =>
              /\ \A i \in 1..Len(net.sent) : net.sent[i].op \notin AfterStartTls
              /\ \A j \in 1..Len(net.reads) : net.reads[j].op \notin AfterStartTls
              /\ Result # "success"

C12_Witness ==
    /\ variant = "textproto"
    /\ Returned
    /\ Upgraded
    /\ config.From # "" /\ config.Body # ""
    /\ Result = "success"
    /\ net.sent[Len(net.sent)].msg = "QUIT"
    /\ net.sent[Len(net.sent)].secure
    /\ net.reads[Len(net.reads)].secure

\* C13: in the textproto variant a failed write of a command gives
\* result=connection_failed and result_code=2.
C13_WriteFailureIsConnectionFailed ==
    (variant = "textproto" /\ StepWriteFailed) =>
        /\ Result = "connection_failed"
        /\ ResultCode = 2

\* C13 as amended: a failed write of a step's command is classified on its
\* own, result_code=6 (command_failed in the README), not as a connection
\* failure; the step gets no code, its reply is not awaited and no later
\* command is written.
C13_WriteFailureIsCommandFailed ==
    (variant = "textproto" /\ StepWriteFailed) =>
        /\ ResultCode = 6
        /\ Result # "connection_failed"
        /\ net.step \notin Coded
        /\ \A i \in 1..Len(net.sent) : net.sent[i].step # net.step
        /\ \A j \in 1..Len(net.reads) : net.reads[j].step # net.step

C13_Witness ==
    /\ variant = "textproto"
    /\ Returned
    /\ StepWriteFailed
    /\ net.step = RcptTo
    /\ Coded = {Connect, Ehlo, MailFrom}
    /\ ResultCode = 6

\* C14: every record of the textproto variant has one result tag and one
\* result_code, paired as in the README table; the tag is never empty.
C14_ResultPairing ==
    (variant = "textproto" /\ Returned) =>
        /\ Has(rec.tags, "result")
        /\ Has(rec.fields, "result_code")
        /\ <<Result, ResultCode>> \in ReadmeResultCodes

C16_ConnectTimeAlways ==
    Returned => Has(rec.fields, "connect_time")

----------------------------------------------------------------------------
(* Properties of Gather, under SpecG *)

GatherReturned == pc = "returned"

\* the address the plugin was configured with
ConfiguredAddress == gather.configured.Address

\* s is a string without colon and bracket
Plain(s) == \A i \in 1..Len(s) : s[i] \notin {":", "[", "]"}

\* the configured address has no colon at all
NoPortSeparator == \A i \in 1..Len(ConfiguredAddress) : ConfiguredAddress[i] # ":"

\* the configured address is "<host>:", with a host that may be empty
EmptyPort ==
    /\ Len(ConfiguredAddress) >= 1
    /\ ConfiguredAddress[Len(ConfiguredAddress)] = ":"
    /\ Plain(SubSeq(ConfiguredAddress, 1, Len(ConfiguredAddress) - 1))

\* the configured address is ":<port>"
EmptyHostWithPort ==
    /\ Len(ConfiguredAddress) >= 2
    /\ ConfiguredAddress[1] = ":"
    /\ Plain(Tail(ConfiguredAddress))

\* host and port are the two parts of the configured address
PartsOfConfiguredAddress(host, port) ==
    \/ ConfiguredAddress = host \o <<":">> \o port /\ Plain(host)
    \/ ConfiguredAddress = <<"[">> \o host \o <<"]", ":">> \o port

\* C17: for an address without a port separator Gather returns the error of
\* the address split (missing port), for an address with an empty port it
\* returns "Bad port"; in both cases nothing is dialled and no measurement
\* is added.
C17_NoUsablePort ==
    (NoPortSeparator \/ EmptyPort) =>
        /\ pc \in {"gather", "returned"}
        /\ net.dialed = <<>>
        /\ net.conn = "none"
        /\ gather.acc = <<>>
        /\ (GatherReturned /\ NoPortSeparator) =>
              /\ gather.ret.kind = "AddrError"
              /\ gather.ret.msg = "missing port in address"
              /\ gather.ret.addr = ConfiguredAddress
        /\ (GatherReturned /\ EmptyPort) =>
              /\ gather.ret.kind = "errorString"
              /\ gather.ret.msg = "Bad port"

C17_Witness ==
    /\ GatherReturned
    /\ ConfiguredAddress = <<":">>
    /\ gather.ret.msg = "Bad port"
    /\ gather.acc = <<>>

\* C18: whatever the network does to the session, Gather returns nil and
\* adds exactly one measurement, named smtp, with the fields of the driver
\* and the tags server and port of the configured address and result of
\* the driver; the driver writes no tag but result.
C18_OneMeasurement ==
    /\ Len(gather.acc) = (IF GatherReturned /\ net.dialed # <<>> THEN 1 ELSE 0)
    /\ DOMAIN rec.tags \subseteq {"result"}
    /\ (GatherReturned /\ net.dialed # <<>>) =>
          LET m == gather.acc[1] IN
          /\ gather.ret.kind = "nil"
          /\ m.measurement = "smtp"
          /\ m.fields = rec.fields
          /\ DOMAIN m.tags = {"server", "port", "result"}
          /\ PartsOfConfiguredAddress(m.tags["server"], m.tags["port"])
          /\ Has(rec.tags, "result")
          /\ m.tags["result"] = rec.tags["result"]

C18_Witness ==
    /\ GatherReturned
    /\ variant = "netsmtp"
    /\ ConfiguredAddress = <<"a", ":", "a">>
    /\ Len(gather.acc) = 1
    /\ gather.acc[1].tags["result"] = "read_failed"
    /\ gather.acc[1].tags["server"] = <<"a">>
    /\ gather.acc[1].tags["port"] = <<"a">>
    /\ net.peer = "closed"
    /\ StartTls \in Coded

\* C19: before the dial a connect timeout of zero becomes one second and a
\* read timeout of zero ten seconds; a configured timeout is left as it is.
\* The dial and the read deadline use the resulting values.
C19_TimeoutDefaults ==
    pc # "gather" =>
        /\ config.Timeout = (IF gather.configured.Timeout = 0
                             THEN Second ELSE gather.configured.Timeout)
        /\ config.ReadTimeout = (IF gather.configured.ReadTimeout = 0
                                 THEN Second * 10
                                 ELSE gather.configured.ReadTimeout)
        /\ Established => net.deadline = net.connectedAt + config.ReadTimeout
        /\ net.dialErr = "timeout" => net.now = net.start + config.Timeout

C19_Witness ==
    /\ GatherReturned
    /\ gather.configured.Timeout = 0
    /\ gather.configured.ReadTimeout = 0
    /\ config.Timeout = Second
    /\ Established
    /\ Len(net.reads) >= 2
    /\ net.reads[Len(net.reads)].err = "timeout"
    /\ net.reads[Len(net.reads)].at = Second * 10

\* C20: for a configured address with an empty host and a port, Gather
\* dials localhost:<port>.
C20_EmptyHostIsLocalhost ==
    (EmptyHostWithPort /\ pc \notin {"gather", "dial"}) =>
        net.dialed = << Localhost \o ConfiguredAddress >>

C20_Witness ==
    /\ GatherReturned
    /\ ConfiguredAddress = <<":", "a", "a">>
    /\ net.dialed = << Localhost \o <<":", "a", "a">> >>
    /\ Established
    /\ Len(gather.acc) = 1

----------------------------------------------------------------------------
(* Release of the connection, timing, order of the commands                *)

\* the last step of the session ran on the upgraded connection
OverTls == net.tls = "up"

\* C21: once the TCP connection is established it is closed when SMTPGather
\* returns, on every exit path and in both implementations, also after the
\* upgrade to TLS; until then it stays open.
C21_ConnectionReleased ==
    Established => (net.conn = "closed" <=> Returned)

C21_Witness ==
    /\ Returned
    /\ Upgraded
    /\ OverTls
    /\ net.conn = "closed"
    /\ Result = "success"

C21_WitnessGreetingFailed ==
    /\ Returned
    /\ net.conn = "closed"
    /\ Len(net.reads) = 1
    /\ net.reads[1].err = "timeout"

Timed == Has(rec.fields, "connect_time") /\ Has(rec.fields, "total_time")

\* C24: in every record that holds both timing fields
\* total_time >= connect_time >= 0.
C24_TimesOrdered ==
    (Returned /\ Timed) =>
        /\ rec.fields["connect_time"] >= 0
        /\ rec.fields["total_time"] >= rec.fields["connect_time"]

C24_Witness ==
    /\ Returned
    /\ Timed
    /\ rec.fields["connect_time"] > 0
    /\ rec.fields["total_time"] > rec.fields["connect_time"]

\* the replies read before the step `operation` was entered
ReadsBefore(operation) ==
    {j \in 1..Len(net.reads) : Before(net.reads[j].step, operation)}

\* the command written on a TLS configuration error, which belongs to no step
CleanupQuit(i) == net.sent[i].op = Quit /\ net.sent[i].step # Quit

\* C25: smtp.go sends its commands in the fixed order EHLO, STARTTLS, MAIL
\* FROM, RCPT TO, DATA, body, QUIT, each at most once, none before the
\* greeting was read as 220, and the command of a step only if every step
\* attempted before it succeeded; after the first failed step no command of
\* a later step other than QUIT is sent.
C25_CommandOrder ==
    variant = "textproto" =>
        /\ \A i, k \in 1..Len(net.sent) :
              i < k => Before(net.sent[i].op, net.sent[k].op)
        /\ \A i \in 1..Len(net.sent) :
              /\ net.sent[i].op # Connect
              /\ Len(net.reads) >= 1
              /\ net.reads[1].op = Connect
              /\ net.reads[1].err = "nil"
              /\ net.reads[1].code = 220
              /\ \A j \in ReadsBefore(net.sent[i].step) : net.reads[j].err = "nil"
              /\ ~CleanupQuit(i) => net.sent[i].op = net.sent[i].step
        /\ \A j \in 1..Len(net.reads) :
              net.reads[j].err # "nil" =>
                  \A i \in 1..Len(net.sent) :
                      ~Before(net.reads[j].step, net.sent[i].step)
        /\ net.writeBroken =>
              \A i \in 1..Len(net.sent) : Before(net.sent[i].step, net.step)

C25_Witness ==
    /\ variant = "textproto"
    /\ Returned
    /\ [i \in 1..Len(net.sent) |-> net.sent[i].op] = <<Ehlo, MailFrom, RcptTo>>
    /\ net.reads[Len(net.reads)].op = RcptTo
    /\ net.reads[Len(net.reads)].err = "textproto"

C25_WitnessFullOrder ==
    /\ variant = "textproto"
    /\ Returned
    /\ [i \in 1..Len(net.sent) |-> net.sent[i].op]
           = <<Ehlo, StartTls, MailFrom, RcptTo, Data, Body, Quit>>

\* the reply to `operation` was read and was the expected one
Succeeded(operation) ==
    \E j \in 1..Len(net.reads) :
        net.reads[j].op = operation /\ net.reads[j].err = "nil"

\* STARTTLS succeeded only if the TLS configuration could be built as well
StepSucceeded(operation) ==
    /\ Succeeded(operation)
    /\ operation = StartTls => TLSConfigUsable(config)

\* C26: in smtp.go a step whose setting is empty or false is skipped: no
\* command is sent for it and no code recorded; skipping blocks no later
\* step: every configured step is attempted once all configured steps
\* before it succeeded.
C26_SkippedSteps ==
    variant = "textproto" =>
        /\ \A op \in AllOperations \ Configured :
              /\ op \notin net.entered
              /\ op \notin Coded
              /\ \A i \in 1..Len(net.sent) : net.sent[i].op # op
              /\ \A j \in 1..Len(net.reads) : net.reads[j].op # op
        /\ Returned =>
              \A op \in Configured :
                  (/\ net.dialErr = "nil"
                   /\ \A op2 \in Configured : Before(op2, op) => StepSucceeded(op2))
                      => op \in net.entered

C26_Witness ==
    /\ variant = "textproto"
    /\ Returned
    /\ Configured = {Connect, MailFrom, Data, Body, Quit}
    /\ net.entered = Configured
    /\ Coded = Configured
    /\ Result = "success"

----------------------------------------------------------------------------
(* Failures of a single reply                                              *)

\* the reply to the QUIT of the quit step, if one was read
QuitReads ==
    {j \in 1..Len(net.reads) :
        net.reads[j].op = Quit /\ net.reads[j].step = Quit}

\* C27: when every configured step succeeded and the server answers QUIT
\* with a well-formed code other than 221, the result is string_mismatch
\* (4), quit_code is the code observed, the codes of the earlier steps are
\* kept with their expected values, and QUIT is not sent a second time.
C27_QuitMismatch ==
    \A j \in QuitReads :
        (Returned /\ net.reads[j].err = "textproto") =>
            /\ Result = "string_mismatch"
            /\ ResultCode = StringMismatch
            /\ CodeOf(Quit) = net.reads[j].code
            /\ CodeOf(Quit) # 221
            /\ Coded = Configured
            /\ \A op \in Configured \ {Quit} : CodeOf(op) = HealthyCode(op)
            /\ QuitCount = 1

C27_Witness ==
    /\ variant = "textproto"
    /\ Returned
    /\ \E j \in QuitReads : net.reads[j].err = "textproto"
    /\ Configured = AllOperations
    /\ CodeOf(Quit) = 421
    /\ CodeOf(Data) = 354

C27_WitnessClient ==
    /\ variant = "netsmtp"
    /\ Returned
    /\ \E j \in QuitReads : net.reads[j].err = "textproto"
    /\ Configured = AllOperations
    /\ CodeOf(Quit) = 250
    /\ QuitCount = 1

\* the replies that ended in a reset or closed connection, or were malformed
BrokenReads ==
    {j \in 1..Len(net.reads) : net.reads[j].err \in {"eof", "protocol"}}

\* C28: when the connection is reset or closed, or a malformed reply
\* arrives, while smtp.go awaits the reply of step X, the result is
\* read_failed (3) and no X_code is recorded; the codes of the earlier
\* steps are kept.
C28_ReadFailure ==
    variant = "textproto" =>
        \A j \in BrokenReads :
            /\ Result = "read_failed"
            /\ ResultCode = ReadFailed
            /\ net.reads[j].op \notin Coded
            /\ \A i \in 1..(j - 1) :
                  CodeOf(net.reads[i].op) = net.reads[i].code

\* a reply with a status code that parses was read for this operation
CodeRead(operation) ==
    \E j \in 1..Len(net.reads) :
        /\ net.reads[j].op = operation
        /\ net.reads[j].step = operation
        /\ net.reads[j].err \in {"nil", "textproto"}

\* the operation was attempted: its command was sent, or for the greeting
\* the connection was established
Attempted(operation) ==
    IF operation = Connect
    THEN Established
    ELSE \E i \in 1..Len(net.sent) :
            net.sent[i].op = operation /\ net.sent[i].step = operation

\* C29: X_code is in the record only if step X was attempted and a reply
\* with a parseable status code was read for it; never for a skipped step,
\* a step after the first failure, or a step whose read timed out or
\* failed.
C29_CodeOnlyIfRead ==
    variant = "textproto" =>
        \A op \in Coded : Attempted(op) /\ CodeRead(op)

----------------------------------------------------------------------------
(* Termination                                                             *)

\* the reads that ended because the read deadline passed
TimedOutReads == {j \in 1..Len(net.reads) : net.reads[j].err = "timeout"}

\* the dial ends within the connect timeout, every read by the one read
\* deadline; an expired dial or (in smtp.go) an expired read ends the session
\* as timeout, with the connection closed on return
TimeBounded ==
    /\ ~Established => Since(net) <= config.Timeout
    /\ Established =>
          /\ net.connectedAt - net.start < config.Timeout
          /\ net.deadline = net.connectedAt + config.ReadTimeout
          /\ net.now <= net.deadline
    /\ net.dialErr = "timeout" =>
          /\ Since(net) = config.Timeout
          /\ Returned
          /\ Result = "timeout"
          /\ ~Established
    /\ (variant = "textproto" /\ TimedOutReads # {}) =>
          /\ TimedOutReads = {Len(net.reads)}
          /\ net.now = net.deadline
          /\ Result = "timeout"
          /\ Returned => net.conn = "closed"

\* how far SMTPGather has come
Position(p) ==
    CASE p = "dial" -> 0
      [] p = "done" -> Len(Order) + 1
      [] OTHER      -> PcIndex(p)

\* a step of SMTPGather moves it forward in its text
Advances == Position(pc') > Position(pc)

\* SMTPGather is never stuck before its return: whatever the server did so
\* far, the statement it is at can be executed
NotStuck == ~Returned => ENABLED Next

----------------------------------------------------------------------------
(* Independence of the calls of Gather                                     *)

TimingFields == {"connect_time", "total_time"}

\* a measurement without its timing fields
NonTiming(m) ==
    [tags   |-> m.tags,
     fields |-> [k \in (DOMAIN m.fields) \ TimingFields |-> m.fields[k]]]

\* the second call of Gather has returned and the server did in it exactly
\* what it did in the first
SecondCallReturned ==
    /\ pc = "returned"
    /\ Len(gather.earlier) = 1
    /\ net.dialErr = gather.earlier[1].net.dialErr
    /\ net.reads = gather.earlier[1].net.reads
    /\ net.sent = gather.earlier[1].net.sent
    /\ net.writeBroken = gather.earlier[1].net.writeBroken

\* C23: the calls of Gather are independent: against the same server
\* behaviour the tags and the non-timing fields of a call do not depend on
\* whether Gather was called before on the same Smtp value, for every
\* address, the one with an empty host included.
C23_GatherIndependent ==
    SecondCallReturned =>
        /\ gather.ret = gather.earlier[1].ret
        /\ Len(gather.acc) = 2 * gather.earlier[1].emitted
        /\ Len(gather.acc) = 2 =>
              NonTiming(gather.acc[2]) = NonTiming(gather.acc[1])

----------------------------------------------------------------------------
(* The cleanup QUIT of the net/smtp implementation                         *)

\* the greeting was read as 220
Greeted ==
    /\ Len(net.reads) >= 1
    /\ net.reads[1].op = Connect
    /\ net.reads[1].err = "nil"

\* a step after the greeting and before the quit step has failed
StepFailed == Greeted /\ ~success /\ Quit \notin net.entered

\* the record but for total_time
WithoutTotalTime(r) ==
    [tags   |-> r.tags,
     fields |-> [k \in (DOMAIN r.fields) \ {"total_time"} |-> r.fields[k]]]

\* the step from the failed session to its return: client.Quit() is called
\* and nothing of its outcome reaches the record
CleanupLeavesRecord ==
    (variant = "netsmtp" /\ pc = "quit" /\ ~success /\ pc' = "done") =>
        /\ net'.step = "cleanup"
        /\ WithoutTotalTime(rec') = WithoutTotalTime(rec)
        /\ ~Has(rec'.fields, "quit_code")

\* after the return: one cleanup, at most one QUIT on the wire, written by
\* the cleanup
CleanupOnce ==
    (variant = "netsmtp" /\ Returned /\ StepFailed) =>
        /\ net.step = "cleanup"
        /\ QuitCount <= 1
        /\ \A i \in 1..Len(net.sent) :
              net.sent[i].msg = "QUIT" => net.sent[i].step = "cleanup"
        /\ Quit \notin Coded

----------------------------------------------------------------------------
(* DATA and the payload, the order of the codes, the first failure         *)

\* the reply to DATA was read as 354
DataAccepted ==
    \E j \in 1..Len(net.reads) :
        /\ net.reads[j].op = Data
        /\ net.reads[j].err = "nil"
        /\ net.reads[j].code = 354

\* C34: DATA and the payload are both governed by the body setting: neither
\* is sent when body is empty; when it is not, the payload, ended by a line
\* holding a single dot, is sent only after DATA was answered with 354; a
\* record holds body_code only with data_code = 354, and a wrong reply to
\* DATA leaves body_code absent.
C34_DataAndPayload ==
    /\ config.Body = "" =>
          /\ \A i \in 1..Len(net.sent) : net.sent[i].op \notin {Data, Body}
          /\ Data \notin Coded
          /\ Body \notin Coded
    /\ \A i \in 1..Len(net.sent) :
          net.sent[i].op = Body =>
              /\ DataAccepted
              /\ net.sent[i].msg = config.Body \o "\r\n.\r\n"
              /\ \E k \in 1..(i - 1) : net.sent[k].op = Data
    /\ Body \in net.entered => DataAccepted
    /\ Body \in Coded => CodeOf(Data) = 354
    /\ \A j \in 1..Len(net.reads) :
          (net.reads[j].op = Data /\ net.reads[j].err # "nil") =>
              /\ Body \notin Coded
              /\ Body \notin net.entered

C34_Witness ==
    /\ Returned
    /\ variant = "netsmtp"
    /\ Body \in Coded
    /\ CodeOf(Body) = 421
    /\ CodeOf(Data) = 354

C34_WitnessWrongData ==
    /\ Returned
    /\ variant = "textproto"
    /\ CodeOf(Data) = 250
    /\ Body \notin Coded

\* the recorded codes that are not the expected ones
OddCodes == {op \in Coded : CodeOf(op) # HealthyCode(op)}

\* C35: in smtp.go, at every point of a session, the recorded codes form a
\* prefix of the attempted steps: if X_code is present then every step
\* attempted before X has its code present and equal to its expected code,
\* and at most one recorded code, the last in step order, differs from its
\* expected code.
C35_CodesFormPrefix ==
    variant = "textproto" =>
        /\ Coded \subseteq net.entered
        /\ \A op \in Coded :
              \A op2 \in net.entered :
                  Before(op2, op) =>
                      /\ op2 \in Coded
                      /\ CodeOf(op2) = HealthyCode(op2)
        /\ Cardinality(OddCodes) <= 1
        /\ \A op \in OddCodes : \A op2 \in Coded : ~Before(op, op2)

C35_Witness ==
    /\ variant = "textproto"
    /\ Returned
    /\ Coded = {Connect, Ehlo, MailFrom, RcptTo, Data}
    /\ OddCodes = {Data}

\* result and result_code stay as they are
ResultKept ==
    /\ rec'.tags = rec.tags
    /\ Has(rec'.fields, "result_code")
    /\ rec'.fields["result_code"] = rec.fields["result_code"]

\* a failure has been classified
Failed == Has(rec.tags, "result") /\ rec.tags["result"] # "success"

\* C36: in smtp.go a failure classification is sticky: once result is set
\* to a value other than success, no later action of the session changes
\* result or result_code; the final result is that of the first failure.
C36_FailureSticky == [][(variant = "textproto" /\ Failed) => ResultKept]_vars

C36_Witness ==
    /\ variant = "textproto"
    /\ Returned
    /\ Result = "tls_config_error"
    /\ QuitCount = 1
    /\ Has(rec.fields, "total_time")

----------------------------------------------------------------------------
(* What Gather emits and what it leaves of the plugin                      *)

\* host:port as the emitted tags name them
TaggedAddress(m) == m.tags["server"] \o <<":">> \o m.tags["port"]

\* C37: the server tag of the emitted measurement names the host Gather
\* connected to and the port tag the port, for every accepted address, the
\* one with an empty host included.
C37_TagsNameDialled ==
    (GatherReturned /\ Len(gather.acc) = 1) =>
        /\ Len(net.dialed) = 1
        /\ net.dialed[1] = TaggedAddress(gather.acc[1])

\* C38: when Gather returns a configuration error (no port separator, or an
\* empty port) the Smtp value is left unchanged: Address, Timeout and
\* ReadTimeout have the values they had before the call.
C38_ErrorLeavesPlugin ==
    (GatherReturned /\ gather.ret.kind # "nil") =>
        /\ config.Address = gather.configured.Address
        /\ config.Timeout = gather.configured.Timeout
        /\ config.ReadTimeout = gather.configured.ReadTimeout

----------------------------------------------------------------------------
(* The implementation with step-specific results (smtp2.go), under SpecS   *)

\* C32: in smtp2.go the terminal state is reached exactly once and no step
\* is retried: for every configuration, those with an empty ehlo, from, to
\* or body included, QUIT is issued at most once in a session and no
\* command is issued after QUIT.
C32_QuitOnceAndLast ==
    variant = "stepspecific" =>
        /\ QuitCount <= 1
        /\ \A i \in 1..Len(net.sent) :
              net.sent[i].msg = "QUIT" => i = Len(net.sent)

\* the result smtp2.go has for a failure of each step
FailedResult(operation) ==
    CASE operation = Ehlo -> EhloFailed
      [] operation = StartTls -> StartTlsFailed
      [] operation = MailFrom -> MailFromFailed
      [] operation = RcptTo -> RcptToFailed
      [] operation = Data -> DataFailed
      [] operation = Body -> DataFailed
      [] operation = Quit -> QuitFailed

FailedTag(operation) ==
    CASE operation = Ehlo -> "ehlo_failed"
      [] operation = StartTls -> "starttls_failed"
      [] operation = MailFrom -> "from_failed"
      [] operation = RcptTo -> "to_failed"
      [] operation = Data -> "data_failed"
      [] operation = Body -> "data_failed"
      [] operation = Quit -> "quit_failed"

\* the field that holds the code of a step (the payload has none of its own)
FieldOp(operation) == IF operation = Body THEN Data ELSE operation

\* every optional value is configured
AllConfigured ==
    config.Ehlo # "" /\ config.From # "" /\ config.To # "" /\ config.Body # ""

\* the codes smtp2.go records for the steps that went well
GoodCode(operation) ==
    CASE operation = Connect -> 220
      [] operation = StartTls -> 220
      [] operation = Quit -> 221
      [] OTHER -> 250

\* the steps before `operation` that the configuration asks for
EarlierSteps(operation) ==
    {op \in Configured \ {Body, Quit} : Before(op, FieldOp(operation))}

\* C33: in smtp2.go with every optional value configured, a wrong reply
\* code at step X yields the result of that step and the observed code:
\* ehlo gives ehlo_failed/4 with ehlo_code, MAIL FROM from_failed/6 with
\* from_code, RCPT TO to_failed/7 with to_code, DATA or the payload
\* data_failed/8 with data_code, QUIT quit_failed/9 with quit_code; an
\* unusable TLS configuration gives tls_config_error/10; the codes of the
\* earlier steps are kept.
C33_StepSpecificResult ==
    (variant = "stepspecific" /\ AllConfigured /\ Returned) =>
        /\ \A j \in 1..Len(net.reads) :
              LET r == net.reads[j] IN
              (/\ r.err = "textproto"
               /\ r.step = r.op
               /\ r.op \in {Ehlo, MailFrom, RcptTo, Data, Body, Quit}) =>
                  /\ Result = FailedTag(r.op)
                  /\ ResultCode = FailedResult(r.op)
                  /\ CodeOf(FieldOp(r.op)) = r.code
                  /\ \A op \in EarlierSteps(r.op) : CodeOf(op) = GoodCode(op)
        /\ (StartTls \in net.entered /\ ~TLSConfigUsable(config)) =>
              /\ Result = "tls_config_error"
              /\ ResultCode = TlsConfigErrorS
              /\ \A op \in {Connect, Ehlo} : CodeOf(op) = GoodCode(op)


============================================================================
